---- MODULE Spec2Model ----
(***************************************************************************)
(* A model of myref/bib.py: the sorted bibliography index (MyRef), the     *)
(* file-association helpers, the DOI extractor, the lookup cache and the   *)
(* `add` command.                                                          *)
(*                                                                         *)
(* Python strings are tuples of one-character strings, so that splitting,  *)
(* joining, lower-casing and comparing are computed character by           *)
(* character, as the code does.                                            *)
(***************************************************************************)
EXTENDS Integers, Sequences, FiniteSets, TLC

VARIABLES
    entries,    \* MyRef.db.entries
    ret,        \* what the last insert_entry returned
    call,       \* the last call on the index, with the collection before it
    rec,        \* one record e, as setentryfiles and rename_entry_files see it
    fs,         \* the paths of the files that exist
    dirs,       \* the paths of the directories that exist
    DRYRUN,     \* the module's global DRYRUN
    fcall,      \* the last call on the record, with the state before it
    cache,      \* the decorator's dict, DOI -> fetched text
    sidefile,   \* the cache's side file on disk
    ccall,      \* the last call of the cached lookup
    pages,      \* the text of pages 1 and 2 of the PDF given to extract_doi
    space_digit,\* extract_doi's flag
    dres,       \* the outcome of extract_doi
    bibfile,    \* the bibliography file on disk
    run         \* the last run of the `add` command, with the disk before it

idxvars == <<entries, ret, call>>
filevars == <<rec, fcall>>
fsvars == <<fs, dirs, DRYRUN>>
cachevars == <<cache, ccall>>
doivars == <<pages, space_digit, dres>>
addvars == <<bibfile, run>>
vars == <<idxvars, filevars, fsvars, cachevars, sidefile, doivars, addvars>>

\* the value of a variable that a specification does not use
Unused == <<>>

IndexUnused == entries = Unused /\ ret = Unused /\ call = Unused
FilesUnused == rec = Unused /\ fcall = Unused
FsUnused == fs = Unused /\ dirs = Unused /\ DRYRUN = Unused
CacheUnused == cache = Unused /\ ccall = Unused
DoiUnused == pages = Unused /\ space_digit = Unused /\ dres = Unused
AddUnused == bibfile = Unused /\ run = Unused

(***************************************************************************)
(* Strings                                                                 *)
(***************************************************************************)

\* ord(c) for the characters the model uses
Code(c) ==
    CASE c = "\n" -> 10 [] c = " " -> 32 [] c = "," -> 44 [] c = "-" -> 45
      [] c = "." -> 46 [] c = "/" -> 47 [] c = "0" -> 48 [] c = "1" -> 49
      [] c = "2" -> 50 [] c = "5" -> 53 [] c = ":" -> 58 [] c = ";" -> 59
      [] c = "A" -> 65 [] c = "B" -> 66 [] c = "D" -> 68 [] c = "I" -> 73
      [] c = "O" -> 79 [] c = "S" -> 83 [] c = "_" -> 95
      [] c = "a" -> 97 [] c = "b" -> 98 [] c = "d" -> 100 [] c = "f" -> 102
      [] c = "g" -> 103 [] c = "i" -> 105 [] c = "o" -> 111 [] c = "p" -> 112
      [] c = "l" -> 108 [] c = "n" -> 110
      [] c = "r" -> 114 [] c = "s" -> 115 [] c = "t" -> 116 [] c = "x" -> 120
      [] c = "z" -> 122 [] c = "|" -> 124

\* str.lower() on one character
LowerChar(c) ==
    CASE c = "A" -> "a" [] c = "B" -> "b" [] c = "D" -> "d" [] c = "I" -> "i"
      [] c = "O" -> "o" [] c = "S" -> "s" [] OTHER -> c

\* str.lower()
Lower(s) == [i \in 1..Len(s) |-> LowerChar(s[i])]

\* Python's s < t on strings: lexicographic on code points
RECURSIVE StrLess(_, _)
StrLess(s, t) ==
    IF t = <<>> THEN FALSE
    ELSE IF s = <<>> THEN TRUE
    ELSE IF Code(Head(s)) # Code(Head(t)) THEN Code(Head(s)) < Code(Head(t))
    ELSE StrLess(Tail(s), Tail(t))

\* s.find(c) and s.rfind(c), 1-based, 0 when c is not in s
Find(s, c) ==
    LET I == { i \in 1..Len(s) : s[i] = c }
    IN  IF I = {} THEN 0 ELSE CHOOSE i \in I : \A j \in I : i <= j

RFind(s, c) ==
    LET I == { i \in 1..Len(s) : s[i] = c }
    IN  IF I = {} THEN 0 ELSE CHOOSE i \in I : \A j \in I : j <= i

Contains(s, c) == \E i \in 1..Len(s) : s[i] = c

\* s.split(c)
RECURSIVE Split(_, _)
Split(s, c) ==
    LET i == Find(s, c)
    IN  IF i = 0 THEN <<s>>
        ELSE <<SubSeq(s, 1, i - 1)>> \o Split(SubSeq(s, i + 1, Len(s)), c)

\* sep.join(ss)
RECURSIVE Join(_, _)
Join(ss, sep) ==
    IF ss = <<>> THEN <<>>
    ELSE IF Len(ss) = 1 THEN ss[1]
    ELSE ss[1] \o sep \o Join(Tail(ss), sep)

IsSpace(c) == c \in {" ", "\n"}

\* s.strip()
RECURSIVE LStrip(_)
LStrip(s) == IF s # <<>> /\ IsSpace(Head(s)) THEN LStrip(Tail(s)) ELSE s

RECURSIVE RStrip(_)
RStrip(s) ==
    IF s # <<>> /\ IsSpace(s[Len(s)]) THEN RStrip(SubSeq(s, 1, Len(s) - 1)) ELSE s

Strip(s) == RStrip(LStrip(s))

\* s.rstrip(c) for one character c
RECURSIVE RStripChar(_, _)
RStripChar(s, c) ==
    IF s # <<>> /\ s[Len(s)] = c THEN RStripChar(SubSeq(s, 1, Len(s) - 1), c) ELSE s

\* os.path.splitext(p): <<base, ext>>; the dots that lead the base name
\* start no extension
SplitExt(p) ==
    LET sepIndex == RFind(p, "/")
        dotIndex == RFind(p, ".")
    IN  IF /\ dotIndex > sepIndex
           /\ \E k \in (sepIndex + 1)..(dotIndex - 1) : p[k] # "."
        THEN <<SubSeq(p, 1, dotIndex - 1), SubSeq(p, dotIndex, Len(p))>>
        ELSE <<p, <<>> >>

\* os.path.dirname(p)
DirName(p) ==
    LET head == SubSeq(p, 1, RFind(p, "/"))
    IN  IF head # <<>> /\ RStripChar(head, "/") # <<>>
        THEN RStripChar(head, "/")
        ELSE head

\* os.path.basename(p)
BaseName(p) == SubSeq(p, RFind(p, "/") + 1, Len(p))

\* os.path.join(a, b)
PathJoin(a, b) ==
    IF b # <<>> /\ Head(b) = "/" THEN b
    ELSE IF a = <<>> \/ a[Len(a)] = "/" THEN a \o b
    ELSE a \o <<"/">> \o b

(***************************************************************************)
(* The index: MyRef.key, MyRef.sort, MyRef.insert_entry                    *)
(***************************************************************************)

\* a key function that forgets to lower-case
KeyRaw(e) == e.ID

\* MyRef.key
Key(e) == Lower(e.ID)

\* sorted(entries, key=self.key): a stable sort, here by insertion
RECURSIVE SortedInsert(_, _)
SortedInsert(s, e) ==
    IF s = <<>> THEN <<e>>
    ELSE IF StrLess(Key(e), Key(Head(s))) THEN <<e>> \o s
    ELSE <<Head(s)>> \o SortedInsert(Tail(s), e)

RECURSIVE SortEntries(_)
SortEntries(s) ==
    IF s = <<>> THEN <<>>
    ELSE SortedInsert(SortEntries(SubSeq(s, 1, Len(s) - 1)), s[Len(s)])

\* bisect.bisect_right: the loop moves right on keys equal to x too
RECURSIVE BisectRightLoop(_, _, _, _)
BisectRightLoop(keys, x, lo, hi) ==
    IF lo < hi
    THEN LET mid == (lo + hi) \div 2
         IN  IF ~StrLess(x, keys[mid + 1])
             THEN BisectRightLoop(keys, x, mid + 1, hi)
             ELSE BisectRightLoop(keys, x, lo, mid)
    ELSE lo

\* the loop of bisect.bisect_left; lo, hi and the result are 0-based
RECURSIVE BisectLoop(_, _, _, _)
BisectLoop(keys, x, lo, hi) ==
    IF lo < hi
    THEN LET mid == (lo + hi) \div 2
         IN  IF StrLess(keys[mid + 1], x)
             THEN BisectLoop(keys, x, mid + 1, hi)
             ELSE BisectLoop(keys, x, lo, mid)
    ELSE lo

BisectRight(keys, x) == BisectRightLoop(keys, x, 0, Len(keys))

\* bisect.bisect_left(keys, x)
BisectLeft(keys, x) == BisectLoop(keys, x, 0, Len(keys))

\* list.insert(i, e), i 0-based
ListInsert(s, i, e) == SubSeq(s, 1, i) \o <<e>> \o SubSeq(s, i + 1, Len(s))

\* MyRef.insert_entry on the collection ents: the new collection, the
\* (1-based) place of the returned record in it, and whether the returned
\* object is the argument e or the record that was already stored
InsertEntry(ents, e, replace) ==
    LET keys == [k \in 1..Len(ents) |-> Key(ents[k])]
        i == BisectLeft(keys, Key(e))
    IN  IF i < Len(keys) /\ keys[i + 1] = Key(e)
        THEN [entries |-> IF replace THEN [ents EXCEPT ![i + 1] = e] ELSE ents,
              idx |-> i + 1, isArg |-> replace]
        ELSE [entries |-> ListInsert(ents, i, e),
              idx |-> i + 1, isArg |-> TRUE]

(***************************************************************************)
(* File associations: getentryfiles, setentryfiles, move,                  *)
(* MyRef.rename_entry_files                                                *)
(***************************************************************************)

PDF == <<"p", "d", "f">>

\* s[1:]
From1(s) == SubSeq(s, 2, Len(s))

\* getentryfiles(e): a list whose items are ef.split(':') for a token with
\* a colon and (ef, 'pdf') for one without
GetEntryFiles(e) ==
    LET files == Strip(e.file)
    IN  IF files = <<>> THEN <<>>
        ELSE LET toks == Split(files, ";")
             IN  [k \in 1..Len(toks) |->
                     IF Contains(toks[k], ":") THEN Split(toks[k], ":")
                     ELSE <<toks[k], PDF>>]

\* a setentryfiles that drops the existing associations whatever overwrite is
SetEntryFilesReplace(e, files, overwrite) ==
    [ok |-> TRUE,
     e |-> [e EXCEPT !.file =
               Join([k \in 1..Len(files) |->
                        files[k] \o <<":">> \o From1(SplitExt(files[k])[2])],
                    <<";">>)]]

\* setentryfiles(e, files, overwrite): ok is FALSE when unpacking
\* `fname, ftype` raises on an item that is not a pair
SetEntryFiles(e, files, overwrite) ==
    LET old == IF overwrite THEN <<>> ELSE GetEntryFiles(e)
        existingfiles == [k \in 1..Len(old) |-> old[k][1]]
        efiles == [k \in 1..Len(files) |->
                      files[k] \o <<":">> \o From1(SplitExt(files[k])[2])]
    IN  IF \E k \in 1..Len(old) : Len(old[k]) # 2
        THEN [ok |-> FALSE, e |-> e]
        ELSE [ok |-> TRUE,
              e |-> [e EXCEPT !.file = Join(efiles \o existingfiles, <<";">>)]]

\* os.makedirs(d): d and the ancestors of d
RECURSIVE MakeDirs(_)
MakeDirs(d) ==
    IF d = <<>> \/ DirName(d) = d THEN {d} ELSE {d} \cup MakeDirs(DirName(d))

\* move(f1, f2, copy) on the file system fsys = [fs, dirs] under DRYRUN = dry
Move(f1, f2, copy, dry, fsys) ==
    LET dirname == DirName(f2)
        made == IF dirname \in fsys.dirs THEN fsys.dirs
                ELSE fsys.dirs \cup MakeDirs(dirname)
    IN  IF dirname = <<>>
        THEN [ok |-> FALSE, fs |-> fsys.fs, dirs |-> fsys.dirs]
        ELSE IF dry
        THEN [ok |-> TRUE, fs |-> fsys.fs, dirs |-> made]
        ELSE IF f1 \notin fsys.fs
        THEN [ok |-> FALSE, fs |-> fsys.fs, dirs |-> made]
        ELSE IF copy
        THEN [ok |-> TRUE, fs |-> fsys.fs \cup {f2}, dirs |-> made]
        ELSE [ok |-> TRUE, fs |-> (fsys.fs \ {f1}) \cup {f2}, dirs |-> made]

\* the loop of rename_entry_files over several files, from the k-th on
RECURSIVE RenameLoop(_, _, _, _, _, _, _)
RenameLoop(files, k, newdir, copy, dry, fsys, efiles) ==
    IF k > Len(files)
    THEN [ok |-> TRUE, fs |-> fsys.fs, dirs |-> fsys.dirs, efiles |-> efiles]
    ELSE IF Len(files[k]) # 2
    THEN [ok |-> FALSE, fs |-> fsys.fs, dirs |-> fsys.dirs, efiles |-> efiles]
    ELSE LET file == files[k][1]
             ftype == files[k][2]
             newfile == PathJoin(newdir, BaseName(file))
             m == IF file # newfile THEN Move(file, newfile, copy, dry, fsys)
                  ELSE [ok |-> TRUE, fs |-> fsys.fs, dirs |-> fsys.dirs]
         IN  IF ~m.ok
             THEN [ok |-> FALSE, fs |-> m.fs, dirs |-> m.dirs, efiles |-> efiles]
             ELSE RenameLoop(files, k + 1, newdir, copy, dry,
                             [fs |-> m.fs, dirs |-> m.dirs],
                             Append(efiles, file \o <<":">> \o ftype))

\* MyRef.rename_entry_files(e, copy) with self.filesdir = filesdir
RenameEntryFiles(e, filesdir, copy, dry, fsys) ==
    LET files == GetEntryFiles(e)
        direc == PathJoin(filesdir, e.year)
        same == [ok |-> TRUE, e |-> e, fs |-> fsys.fs, dirs |-> fsys.dirs]
    IN  IF files = <<>> THEN same
        ELSE IF Len(files) = 1
        THEN IF Len(files[1]) # 2 THEN [same EXCEPT !.ok = FALSE]
             ELSE LET file == files[1][1]
                      type == files[1][2]
                      newfile == PathJoin(direc, e.ID \o SplitExt(file)[2])
                      m == IF file # newfile
                           THEN Move(file, newfile, copy, dry, fsys)
                           ELSE [ok |-> TRUE, fs |-> fsys.fs, dirs |-> fsys.dirs]
                  IN  [ok |-> m.ok,
                       e |-> IF m.ok
                             THEN [e EXCEPT !.file = newfile \o <<":">> \o type]
                             ELSE e,
                       fs |-> m.fs, dirs |-> m.dirs]
        ELSE LET r == RenameLoop(files, 1, PathJoin(direc, e.ID), copy, dry,
                                 fsys, <<>>)
             IN  [ok |-> r.ok,
                  e |-> IF r.ok THEN [e EXCEPT !.file = Join(r.efiles, <<";">>)]
                        ELSE e,
                  fs |-> r.fs, dirs |-> r.dirs]

(***************************************************************************)
(* Specification of the index: a storage file is loaded, then records are  *)
(* inserted.                                                               *)
(***************************************************************************)

\* the longest storage file loaded, and the largest collection built
MaxFile == 2
MaxEntries == 3

Ids == { <<"A">>, <<"a">>, <<"a", "B">>, <<"a", "b">>, <<"B">> }
Titles == { "t1", "t2" }
Records == [ID : Ids, year : {<<"2", "0">>}, title : Titles, file : {<<>>}]

SeqsUpTo(set, n) == UNION { [1..k -> set] : k \in 0..n }

\* MyRef.__init__: the parser returns the file's records in file order,
\* then self.sort()
MyRefInit(stored) == SortEntries(stored)

IndexInit ==
    /\ \E stored \in SeqsUpTo(Records, MaxFile) :
          /\ entries = MyRefInit(stored)
          /\ call = [op |-> "load", e |-> <<>>, replace |-> FALSE, before |-> stored]
    /\ ret = [idx |-> 0, isArg |-> FALSE]
    /\ FilesUnused
    /\ FsUnused
    /\ CacheUnused
    /\ sidefile = Unused
    /\ DoiUnused
    /\ AddUnused

InsertEntryCall(e, replace) ==
    LET r == InsertEntry(entries, e, replace)
    IN  /\ Len(r.entries) <= MaxEntries
        /\ entries' = r.entries
        /\ ret' = [idx |-> r.idx, isArg |-> r.isArg]
        /\ call' = [op |-> "insert", e |-> e, replace |-> replace, before |-> entries]
        /\ UNCHANGED <<filevars, fsvars, cachevars, sidefile, doivars, addvars>>

IndexNext == \E e \in Records, replace \in BOOLEAN : InsertEntryCall(e, replace)

SpecIndex == IndexInit /\ [][IndexNext]_vars

\* the normalized identifier, as the specification defines it
NormId(e) == Lower(e.ID)

HasNormId(ents, e) == \E j \in 1..Len(ents) : NormId(ents[j]) = NormId(e)

\* C1: after the load and after every insert_entry, the normalized
\* identifiers of db.entries are in non-decreasing order.
SortInvariant ==
    \A i \in 1..(Len(entries) - 1) :
        ~StrLess(NormId(entries[i + 1]), NormId(entries[i]))

\* a new record went between two others, next to identifiers in upper case
SortInvariantWitness ==
    /\ call.op = "insert"
    /\ Len(call.before) = 2
    /\ Len(entries) = 3
    /\ ret.idx = 2
    /\ entries[1].ID = <<"A">>
    /\ entries[2].ID = <<"a", "B">>
    /\ entries[3].ID = <<"B">>

\* C2: no two records of db.entries have the same normalized identifier,
\* right after a load and after any sequence of insert_entry calls.
UniqueNormIds ==
    \A i, j \in 1..Len(entries) :
        i # j => NormId(entries[i]) # NormId(entries[j])

\* C3: insert_entry(e, replace=False) of a normalized identifier that is
\* present leaves the collection as it was and returns the stored record,
\* not e.
IdempotentInsert ==
    (call.op = "insert" /\ ~call.replace /\ HasNormId(call.before, call.e))
        => /\ entries = call.before
           /\ ~ret.isArg
           /\ ret.idx \in 1..Len(entries)
           /\ NormId(entries[ret.idx]) = NormId(call.e)

\* the record inserted differs from the stored one in case and in content
IdempotentInsertWitness ==
    /\ call.op = "insert"
    /\ ~call.replace
    /\ HasNormId(call.before, call.e)
    /\ Len(entries) = 3
    /\ ret.idx = 2
    /\ entries[2].ID = <<"a", "b">>
    /\ call.e.ID = <<"a", "B">>
    /\ call.e.title # entries[2].title

(***************************************************************************)
(* Specification of the file associations of one record: setentryfiles    *)
(* and rename_entry_files are called on it in any order.                   *)
(***************************************************************************)

\* the longest list of new paths given to setentryfiles, and the longest
\* association list built
MaxNew == 2
MaxAssoc == 2

\* the number of calls made on the record
MaxCalls == 3

TmpDir == <<"/", "t">>
XPdf == <<"/", "t", "/", "x", ".", "p", "d", "f">>
SZip == <<"/", "t", "/", "s", ".", "z", "i", "p">>
APdf == <<"/", "t", "/", "a", ".", "p", "d", "f">>
FilesDir == <<"/", "l">>
Year == <<"2", "0">>
Colon == <<":">>
Semi == <<";">>
ZIP == <<"z", "i", "p">>

Paths == { XPdf, SZip }

\* the files fields a stored record may come with
FileFields ==
    { <<>>,
      XPdf \o Colon \o PDF,
      XPdf,
      <<" ">> \o SZip \o Colon \o ZIP \o <<"\n">>,
      XPdf \o Colon \o PDF \o Semi \o SZip \o Colon \o ZIP,
      APdf \o Colon \o PDF \o Colon \o PDF }

FilesInit ==
    /\ \E f \in FileFields :
          rec = [ID |-> <<"s">>, year |-> Year, title |-> "t1", file |-> f]
    /\ fs = Paths
    /\ dirs = {<<"/">>, TmpDir}
    /\ DRYRUN \in BOOLEAN
    /\ fcall = [op |-> "none", n |-> 0]
    /\ IndexUnused
    /\ CacheUnused
    /\ sidefile = Unused
    /\ DoiUnused
    /\ AddUnused

SetEntryFilesCall(files, overwrite) ==
    LET r == SetEntryFiles(rec, files, overwrite)
    IN  /\ fcall.n < MaxCalls
        /\ Len(GetEntryFiles(r.e)) <= MaxAssoc
        /\ rec' = r.e
        /\ fcall' = [op |-> "set", n |-> fcall.n + 1, files |-> files,
                     overwrite |-> overwrite, ok |-> r.ok, before |-> rec,
                     fsBefore |-> fs]
        /\ UNCHANGED <<fsvars, idxvars, cachevars, sidefile, doivars, addvars>>

RenameEntryFilesCall(copy) ==
    LET r == RenameEntryFiles(rec, FilesDir, copy, DRYRUN,
                              [fs |-> fs, dirs |-> dirs])
    IN  /\ fcall.n < MaxCalls
        /\ rec' = r.e
        /\ fs' = r.fs
        /\ dirs' = r.dirs
        /\ fcall' = [op |-> "rename", n |-> fcall.n + 1, copy |-> copy,
                     ok |-> r.ok, before |-> rec, fsBefore |-> fs]
        /\ UNCHANGED <<DRYRUN, idxvars, cachevars, sidefile, doivars, addvars>>

FilesNext ==
    \/ \E files \in SeqsUpTo(Paths, MaxNew), overwrite \in BOOLEAN :
          SetEntryFilesCall(files, overwrite)
    \/ \E copy \in BOOLEAN : RenameEntryFilesCall(copy)

SpecFiles == FilesInit /\ [][FilesNext]_vars

\* the (path, type) pairs of a files field
Assoc(e) == GetEntryFiles(e)

AssocPaths(e) == [k \in 1..Len(Assoc(e)) |-> Assoc(e)[k][1]]

\* (q, extension of q without its dot) for each new path q
Tagged(files) == [k \in 1..Len(files) |-> <<files[k], From1(SplitExt(files[k])[2])>>]

\* C5: after setentryfiles(record, new_paths, overwrite=False), the
\* association list is the new paths, each with its extension as type,
\* followed by the old list with every (path, type) pair as it was.
AppendPreservesOld ==
    (fcall.op = "set" /\ fcall.ok /\ ~fcall.overwrite)
        => Assoc(rec) = Tagged(fcall.files) \o Assoc(fcall.before)

\* C10: after rename_entry_files(e, copy=False) without error and with
\* dry-run off, on a record whose associated files all exist, every path of
\* the association list is a file that exists, at its place under
\* <filesdir>/<year>.
RenameFollowsFiles ==
    (/\ fcall.op = "rename" /\ fcall.ok /\ ~fcall.copy /\ ~DRYRUN
     /\ Len(Assoc(fcall.before)) >= 1
     /\ \A k \in 1..Len(Assoc(fcall.before)) :
            AssocPaths(fcall.before)[k] \in fcall.fsBefore)
        => \A k \in 1..Len(Assoc(rec)) :
              /\ AssocPaths(rec)[k] \in fs
              /\ SubSeq(AssocPaths(rec)[k], 1, Len(FilesDir)) = FilesDir

(***************************************************************************)
(* The lookup cache: cached(file), wrapped around fetch_bibtex             *)
(***************************************************************************)

DoiA == <<"1", "0", ".", "1", "0", "0", "0", "/", "a", "1">>
DoiB == <<"1", "0", ".", "1", "0", "0", "0", "/", "b", "_", "2">>
DoiC == <<"1", "0", ".", "1", "0", "0", "0", "/", "c">>
Dois == { DoiA, DoiB, DoiC }

\* what the wrapped lookup may do: return a text (a text is modelled by what
\* the parser reads in it: one record, or none), or raise
Raises == "raises"
NoRecord == "no record"
Texts == { "record A", "record B" }

NoFile == [exists |-> FALSE, data |-> <<>>]

\* the decorator's body, run once when the module is loaded
CacheLoad(side) == IF side.exists THEN side.data ELSE <<>>

\* a decorator that stores a failure of fun under doi as a negative result
DecoratedNegative(c, side, dry, doi, fun) ==
    IF doi \in DOMAIN c
    THEN [cache |-> c, sidefile |-> side, invoked |-> FALSE, raised |-> FALSE,
          res |-> c[doi]]
    ELSE LET c2 == [d \in DOMAIN c \cup {doi} |-> IF d = doi THEN fun ELSE c[d]]
         IN  [cache |-> c2,
              sidefile |-> IF dry THEN side ELSE [exists |-> TRUE, data |-> c2],
              invoked |-> TRUE, raised |-> fun = Raises, res |-> fun]

\* decorated(doi) on the dict c and the side file, with DRYRUN = dry; fun is
\* what the wrapped lookup does when called: it returns a text or raises
Decorated(c, side, dry, doi, fun) ==
    IF doi \in DOMAIN c
    THEN [cache |-> c, sidefile |-> side, invoked |-> FALSE, raised |-> FALSE,
          res |-> c[doi]]
    ELSE IF fun = Raises
    THEN [cache |-> c, sidefile |-> side, invoked |-> TRUE, raised |-> TRUE,
          res |-> Raises]
    ELSE LET c2 == [d \in DOMAIN c \cup {doi} |-> IF d = doi THEN fun ELSE c[d]]
         IN  [cache |-> c2,
              sidefile |-> IF dry THEN side ELSE [exists |-> TRUE, data |-> c2],
              invoked |-> TRUE, raised |-> FALSE, res |-> fun]

CacheInit ==
    /\ sidefile \in { NoFile,
                       [exists |-> TRUE, data |-> [d \in {DoiA} |-> "record A"]] }
    /\ cache = CacheLoad(sidefile)
    /\ DRYRUN \in BOOLEAN
    /\ ccall = [op |-> "none"]
    /\ fs = Unused
    /\ dirs = Unused
    /\ IndexUnused
    /\ FilesUnused
    /\ DoiUnused
    /\ AddUnused

DecoratedCall(doi, fun) ==
    LET r == Decorated(cache, sidefile, DRYRUN, doi, fun)
    IN  /\ cache' = r.cache
        /\ sidefile' = r.sidefile
        /\ ccall' = [op |-> "call", doi |-> doi, fun |-> fun, invoked |-> r.invoked,
                     raised |-> r.raised, res |-> r.res, before |-> cache]
        /\ UNCHANGED <<fsvars, idxvars, filevars, doivars, addvars>>

CacheNext == \E doi \in Dois, fun \in Texts \cup {Raises} : DecoratedCall(doi, fun)

SpecCache == CacheInit /\ [][CacheNext]_vars

\* C6: the wrapped lookup is invoked exactly when the DOI is not a cache
\* key; a successful lookup adds the DOI with the fetched text; a failed one
\* propagates and leaves the cache mapping as it was, without the DOI.
CacheContract ==
    ccall.op = "call" =>
        LET before == ccall.before
            doi == ccall.doi
        IN  /\ ccall.invoked <=> doi \notin DOMAIN before
            /\ (doi \in DOMAIN before) =>
                  /\ cache = before
                  /\ ~ccall.raised
                  /\ ccall.res = before[doi]
            /\ (doi \notin DOMAIN before /\ ccall.fun # Raises) =>
                  /\ DOMAIN cache = DOMAIN before \cup {doi}
                  /\ cache[doi] = ccall.fun
                  /\ \A d \in DOMAIN before : cache[d] = before[d]
                  /\ ~ccall.raised
                  /\ ccall.res = ccall.fun
            /\ (doi \notin DOMAIN before /\ ccall.fun = Raises) =>
                  /\ cache = before
                  /\ doi \notin DOMAIN cache
                  /\ ccall.raised

\* a lookup failed while other DOIs were cached
CacheContractWitness ==
    /\ ccall.op = "call"
    /\ ccall.invoked
    /\ ccall.raised
    /\ ccall.doi = DoiB
    /\ DOMAIN cache = {DoiA, DoiC}
    /\ sidefile.exists

(***************************************************************************)
(* The DOI extractor: parse_doi, extract_doi                               *)
(***************************************************************************)

\* the character class the prefix alternatives are written in:
\* '[' + 'doi:|doi: |doi |dx\.doi\.org/|doi/' + ']'
PrefixClass == { "d", "o", "i", ":", "|", " ", "x", ".", "r", "g", "/" }

\* \d
IsDigit(c) == c \in { "0", "1", "2", "3", "4", "5", "6", "7", "8", "9" }

\* stop = [, \n]
StopClass == { ",", " ", "\n" }

\* the end of the greedy run [ \d]* that starts at position p
RECURSIVE GreedyEnd(_, _)
GreedyEnd(t, p) ==
    IF p <= Len(t) /\ (t[p] = " " \/ IsDigit(t[p])) THEN GreedyEnd(t, p + 1) ELSE p

\* the run gives characters back, from m down to 0, until the stop class
\* matches at p + m; the last position of the group, 0 for no match
RECURSIVE GiveBack(_, _, _)
GiveBack(t, p, m) ==
    IF p + m <= Len(t) /\ t[p + m] \in StopClass THEN p + m - 1
    ELSE IF m = 0 THEN 0
    ELSE GiveBack(t, p, m - 1)

\* the lazy .*? has consumed the characters before position p: try the rest
\* of the pattern there, and else let it consume one more character (any
\* but a newline)
RECURSIVE Lazy(_, _, _)
Lazy(t, p, space) ==
    LET m == IF space THEN GreedyEnd(t, p) - p ELSE 0
        e == GiveBack(t, p, m)
    IN  IF e # 0 THEN e
        ELSE IF p <= Len(t) /\ t[p] # "\n" THEN Lazy(t, p + 1, space)
        ELSE 0

\* the pattern tried at position s: one prefix character, 10\.\d\d\d\d/, and
\* the rest; the last position of the captured group, 0 for no match
MatchAt(t, s, space) ==
    IF /\ s + 8 <= Len(t)
       /\ t[s] \in PrefixClass
       /\ t[s + 1] = "1" /\ t[s + 2] = "0" /\ t[s + 3] = "."
       /\ \A k \in 4..7 : IsDigit(t[s + k])
       /\ t[s + 8] = "/"
    THEN Lazy(t, s + 9, space)
    ELSE 0

\* re.compile(regexp).findall(t): <<TRUE, first group>> or <<FALSE, "">>
FirstMatch(t, space) ==
    LET I == { s \in 1..Len(t) : MatchAt(t, s, space) # 0 }
    IN  IF I = {} THEN <<FALSE, <<>> >>
        ELSE LET s == CHOOSE i \in I : \A j \in I : i <= j
             IN  <<TRUE, SubSeq(t, s + 1, MatchAt(t, s, space))>>

\* s.replace(a, b) for one character a and a string b
RECURSIVE Replace(_, _, _)
Replace(s, a, b) ==
    IF s = <<>> THEN <<>>
    ELSE (IF Head(s) = a THEN b ELSE <<Head(s)>>) \o Replace(Tail(s), a, b)

\* s.strip('.')
RECURSIVE LStripChar(_, _)
LStripChar(s, c) == IF s # <<>> /\ Head(s) = c THEN LStripChar(Tail(s), c) ELSE s

StripChar(s, c) == RStripChar(LStripChar(s, c), c)

\* the clean-up of the first match in parse_doi
Clean(match, space) ==
    LET doi == StripChar(Replace(match, "\n", <<>>), ".")
    IN  IF space THEN Replace(doi, " ", <<"_">>) ELSE doi

\* the least length the quality check lets through is one more than this
MinDoiLen == 8

\* parse_doi(txt, space_digit): the DOI, or the exception raised
ParseDoi(txt, space) ==
    LET m == FirstMatch(Lower(txt), space)
        doi == Clean(m[2], space)
    IN  IF ~m[1] THEN [kind |-> "ValueError", doi |-> <<>>]
        ELSE IF ~(Len(doi) > MinDoiLen) THEN [kind |-> "AssertionError", doi |-> <<>>]
        ELSE [kind |-> "ok", doi |-> doi]

\* an extract_doi that catches every exception of the first parse
ExtractDoiCatchAll(pp, space) ==
    LET first == ParseDoi(pp[1], space)
        second == ParseDoi(pp[2], space)
    IN  IF first.kind # "ok"
        THEN [kind |-> second.kind, doi |-> second.doi, reads |-> <<1, 2>>]
        ELSE [kind |-> first.kind, doi |-> first.doi, reads |-> <<1>>]

\* extract_doi(pdf, space_digit) on a PDF whose pages 1 and 2 have the texts
\* pp[1] and pp[2]; reads lists the pages readpdf was called for
ExtractDoi(pp, space) ==
    LET first == ParseDoi(pp[1], space)
        second == ParseDoi(pp[2], space)
    IN  IF first.kind = "ValueError"
        THEN [kind |-> second.kind, doi |-> second.doi, reads |-> <<1, 2>>]
        ELSE [kind |-> first.kind, doi |-> first.doi, reads |-> <<1>>]

(***************************************************************************)
(* Specification of the DOI extractor: extract_doi is applied to a PDF     *)
(* with given texts on pages 1 and 2.                                      *)
(***************************************************************************)

\* the longest text that follows the DOI's 10.dddd/ on page 1
MaxTail == 3

Leads == { <<>>, <<"D", "O", "I", ":">> }
Cores == { <<"1", "0", ".", "1", "0", "0", "0", "/">>,
           <<"1", "0", ".", "1", "0", "0", "/">> }
TailChars == { "A", "1", " ", ",", ".", "\n" }

Page1s == { l \o c \o t : l \in Leads, c \in Cores, t \in SeqsUpTo(TailChars, MaxTail) }

DoiPrefix == <<"d", "o", "i", " ", "1", "0", ".", "1", "0", "0", "0", "/">>

\* page 2: blank, a good DOI, a DOI too short, a DOI with no stop after it
Page2s == { <<>>,
            DoiPrefix \o <<"b", " ", "2", "\n">>,
            DoiPrefix \o <<".", ",">>,
            DoiPrefix \o <<"b", "2">> }

DoiInit ==
    /\ pages \in Page1s \X Page2s
    /\ space_digit \in BOOLEAN
    /\ dres = [kind |-> "none"]
    /\ sidefile = Unused
    /\ IndexUnused
    /\ FilesUnused
    /\ FsUnused
    /\ CacheUnused
    /\ AddUnused

ExtractDoiCall ==
    /\ dres.kind = "none"
    /\ dres' = ExtractDoi(pages, space_digit)
    /\ UNCHANGED <<pages, space_digit, sidefile, idxvars, filevars, fsvars,
                   cachevars, addvars>>

DoiNext == ExtractDoiCall

SpecDoi == DoiInit /\ [][DoiNext]_vars

\* a page has a pattern match
HasMatch(txt) == FirstMatch(Lower(txt), space_digit)[1]

\* the cleaned first match of a page
CleanedMatch(txt) == Clean(FirstMatch(Lower(txt), space_digit)[2], space_digit)

\* C8: page 2 is read only if page 1 has no match; the not-found error is
\* raised exactly when neither page has a match; otherwise the first match
\* of the page consulted decides: the validation error when its cleaned
\* length is at most 8, and the cleaned match when it is 9 or more. A match
\* too short on page 1 is not retried on page 2.
ExtractDoiOutcomes ==
    dres.kind # "none" =>
        LET m1 == HasMatch(pages[1])
            m2 == HasMatch(pages[2])
            consulted == IF m1 THEN pages[1] ELSE pages[2]
        IN  /\ dres.reads = (IF m1 THEN <<1>> ELSE <<1, 2>>)
            /\ (dres.kind = "ValueError") <=> (~m1 /\ ~m2)
            /\ (m1 \/ m2) =>
                  /\ Len(CleanedMatch(consulted)) <= 8
                        => dres.kind = "AssertionError"
                  /\ Len(CleanedMatch(consulted)) >= 9
                        => dres.kind = "ok" /\ dres.doi = CleanedMatch(consulted)

\* page 1 matched too short while page 2 held a good DOI
ExtractDoiOutcomesWitness ==
    /\ dres.kind = "AssertionError"
    /\ dres.reads = <<1>>
    /\ HasMatch(pages[1])
    /\ HasMatch(pages[2])
    /\ Len(CleanedMatch(pages[2])) >= 9

(***************************************************************************)
(* The `add` command: MyRef.newbib, MyRef.add_pdf, MyRef.save, main.addpdf *)
(***************************************************************************)

NPdf == <<"/", "t", "/", "n", ".", "p", "d", "f">>
GPdf == <<"/", "t", "/", "g", ".", "p", "d", "f">>

\* the texts of pages 1 and 2 of the PDFs: x.pdf carries a DOI, n.pdf none
PdfPages(pdf) ==
    IF pdf = XPdf
    THEN << <<"D", "O", "I", ":">> \o DoiA \o <<",", " ">>, <<>> >>
    ELSE << <<"a", " ">>, <<>> >>

\* readpdf and extract_doi on a path: pdftotext fails on a missing file
ExtractDoiOf(pdf, files) ==
    IF pdf \notin files
    THEN [kind |-> "CalledProcessError", doi |-> <<>>, reads |-> <<1>>]
    ELSE ExtractDoi(PdfPages(pdf), TRUE)

\* bibtexparser.loads(text).entries
Loads(text) ==
    IF text = NoRecord THEN <<>>
    ELSE << [ID |-> <<"S">>, year |-> Year,
             title |-> IF text = "record A" THEN "t1" ELSE "t2", file |-> <<>>] >>

\* the one element of a singleton; { F(v) : v \in {e} } names the value of e
Only(S) == CHOOSE v \in S : TRUE

\* add_pdf from setentryfiles on: entry is ents[idx], the record that
\* insert_entry returned, which setentryfiles and rename_entry_files change
\* in place
AddPdfFiles(ents, idx, o, dry, fsys, sofar) ==
    Only({
        IF ~st.ok THEN [sofar EXCEPT !.stage = "setentryfiles", !.entries = ents]
        ELSE Only({
            [sofar EXCEPT !.stage = IF rn.ok THEN "done" ELSE "rename_entry_files",
                          !.entries = [ents EXCEPT ![idx] = rn.e],
                          !.fs = rn.fs, !.dirs = rn.dirs] :
            rn \in { IF o.rename
                     THEN RenameEntryFiles(st.e, FilesDir, o.copy, dry, fsys)
                     ELSE [ok |-> TRUE, e |-> st.e, fs |-> fsys.fs,
                           dirs |-> fsys.dirs] } }) :
        st \in { SetEntryFiles(ents[idx], <<o.pdf>> \o o.attachments, ~o.append) } })

\* add_pdf from fetch_bibtex on, with the DOI found
AddPdfFetch(ents, o, c, side, dry, fsys, fun, doi, sofar) ==
    Only({
        IF f.raised
        THEN [sofar EXCEPT !.stage = "fetch_bibtex"]
        ELSE IF Loads(f.res) = <<>>
        THEN [sofar EXCEPT !.stage = "entries[0]", !.cache = f.cache,
                           !.sidefile = f.sidefile]
        ELSE Only({
            AddPdfFiles(ins.entries, ins.idx, o, dry, fsys,
                        [sofar EXCEPT !.cache = f.cache, !.sidefile = f.sidefile]) :
            ins \in { InsertEntry(ents, Loads(f.res)[1], FALSE) } }) :
        f \in { Decorated(c, side, dry, doi, fun) } })

\* MyRef.add_pdf on the collection ents; the stage that raised, or "done"
AddPdf(ents, o, c, side, dry, fsys, fun) ==
    Only({
        IF x.kind # "ok"
        THEN [stage |-> "extract_doi", entries |-> ents, cache |-> c,
              sidefile |-> side, fs |-> fsys.fs, dirs |-> fsys.dirs]
        ELSE AddPdfFetch(ents, o, c, side, dry, fsys, fun, x.doi,
                         [stage |-> "done", entries |-> ents, cache |-> c,
                          sidefile |-> side, fs |-> fsys.fs, dirs |-> fsys.dirs]) :
        x \in { ExtractDoiOf(o.pdf, fsys.fs) } })

\* MyRef.newbib writes an empty file; MyRef.__init__ then loads it
NewBib == [exists |-> TRUE, entries |-> <<>>]

\* MyRef.save: the whole collection overwrites the file
Save(ents) == [exists |-> TRUE, entries |-> ents]

(***************************************************************************)
(* Specification of the `add` command: one process per run, on the disk    *)
(* the previous run left.                                                  *)
(***************************************************************************)

\* the number of runs of the command
MaxRuns == 2

\* --rename and --copy; --copy is read by the rename step only
RenameModes == { <<FALSE, FALSE>>, <<TRUE, FALSE>>, <<TRUE, TRUE>> }

Options ==
    { [pdf |-> pdf, rename |-> m[1], copy |-> m[2], dry_run |-> d, append |-> a,
       attachments |-> att] :
        pdf \in {XPdf, NPdf}, m \in RenameModes, d \in BOOLEAN, a \in BOOLEAN,
        att \in {<<>>, <<SZip>>} }

AddInit ==
    /\ bibfile \in { [exists |-> FALSE, entries |-> <<>>],
                      [exists |-> TRUE, entries |-> <<>>],
                      [exists |-> TRUE,
                       entries |-> << [ID |-> <<"s">>, year |-> Year, title |-> "t1",
                                       file |-> GPdf \o Colon \o PDF] >>] }
    /\ sidefile = NoFile
    /\ fs = {XPdf, NPdf, SZip}
    /\ dirs = {<<"/">>, TmpDir}
    /\ DRYRUN = FALSE
    /\ run = [n |-> 0, stage |-> "none"]
    /\ IndexUnused
    /\ FilesUnused
    /\ CacheUnused
    /\ DoiUnused

\* main.addpdf(o), in a process whose lookup would do `fun` if called
AddPdfCmd(o, fun) ==
    /\ run.n < MaxRuns
    /\ \E bib \in { IF bibfile.exists THEN bibfile ELSE NewBib } :
       \E ents \in { MyRefInit(bib.entries) }, c \in { CacheLoad(sidefile) } :
       \E r \in { AddPdf(ents, o, c, sidefile, o.dry_run,
                          [fs |-> fs, dirs |-> dirs], fun) } :
          /\ \A k \in 1..Len(r.entries) :
                Len(GetEntryFiles(r.entries[k])) <= MaxAssoc
          /\ DRYRUN' = o.dry_run
          /\ bibfile' = IF r.stage = "done" /\ ~o.dry_run THEN Save(r.entries)
                        ELSE bib
          /\ sidefile' = r.sidefile
          /\ fs' = r.fs
          /\ dirs' = r.dirs
          /\ run' = [n |-> run.n + 1, stage |-> r.stage, o |-> o]
          /\ UNCHANGED <<idxvars, filevars, cachevars, doivars>>

AddNext == \E o \in Options, fun \in {Raises, NoRecord, "record A"} : AddPdfCmd(o, fun)

SpecAdd == AddInit /\ [][AddNext]_vars

\* C4: a run of `add` in which a step fails leaves the bibliography file as
\* it was before the run, absent if it was absent.
FailedAddLeavesBibfile ==
    [][(run'.n > run.n /\ run'.stage # "done") => bibfile' = bibfile]_vars

\* C9: a run of `add` with --dry-run moves or copies no file, creates no
\* directory, and writes neither the bibliography file nor the cache's side
\* file.
DryRunLeavesDisk ==
    [][(run'.n > run.n /\ run'.o.dry_run) =>
          /\ bibfile' = bibfile
          /\ fs' = fs
          /\ dirs' = dirs
          /\ sidefile' = sidefile]_vars

\* a run that succeeded, without --rename, --dry-run or attachments
PlainAdd(r) ==
    /\ r.n > 0
    /\ r.stage = "done"
    /\ ~r.o.rename
    /\ ~r.o.dry_run
    /\ r.o.attachments = <<>>

\* C7: on an empty bibliography a successful add of a PDF gives one record
\* whose association list is [(pdf, 'pdf')]; a second add of the same PDF
\* with --append keeps one record and gives it two associations, the new one
\* followed by the old one.
AddThenAppend ==
    [][/\ ((~bibfile.exists \/ bibfile.entries = <<>>) /\ PlainAdd(run')) =>
             /\ Len(bibfile'.entries) = 1
             /\ GetEntryFiles(bibfile'.entries[1]) = << <<run'.o.pdf, PDF>> >>
       /\ (/\ PlainAdd(run)
           /\ Len(bibfile.entries) = 1
           /\ GetEntryFiles(bibfile.entries[1]) = << <<run.o.pdf, PDF>> >>
           /\ PlainAdd(run')
           /\ run'.n > run.n
           /\ run'.o.pdf = run.o.pdf
           /\ run'.o.append) =>
             /\ Len(bibfile'.entries) = 1
             /\ GetEntryFiles(bibfile'.entries[1]) =
                   << <<run.o.pdf, PDF>>, <<run.o.pdf, PDF>> >>]_vars

\* the second add, with --append, has run on the record the first one made
AddThenAppendWitness ==
    /\ run.n = 2
    /\ PlainAdd(run)
    /\ run.o.append
    /\ run.o.pdf = XPdf
    /\ Len(bibfile.entries) = 1
    /\ bibfile.entries[1].ID = <<"S">>
    /\ GetEntryFiles(bibfile.entries[1]) = << <<XPdf, PDF>>, <<XPdf, PDF>> >>
    /\ sidefile.exists

====
